---- MODULE Spec2Model ----
(***************************************************************************)
(* Verification model of KDE-for-SciPy: kde.kde / kde.fixed_point          *)
(* (src/kde.py) and the plotting driver test_plots.main                    *)
(* (src/test_plots.py).                                                    *)
(*                                                                         *)
(* Real numbers are held as exact rationals [n |-> numerator,              *)
(* d |-> denominator > 0] in lowest terms.  Quantities that are not        *)
(* rational (cosine-transform coefficients, the moment sums phi, the       *)
(* value of g) are held as symbolic terms that record which operation      *)
(* produced them from which operands; only the sign of g at the two ends   *)
(* of the bracket is drawn, from the signs the evaluation can have.        *)
(***************************************************************************)
EXTENDS Integers, Sequences, FiniteSets, TLC

\* ------------------------------------------------------------------ bounds
MaxSamples == 2     \* longest sample set
MaxVal == 2         \* sample values and caller bounds are drawn from 0..MaxVal
MaxGrid == 4        \* largest requested grid size
MaxObjects == 2     \* most benchmark objects constructed outside main

\* --------------------------------------------------------- exact rationals
\* an omitted argument / an unassigned local; a supplied value v is <<v>>
None == <<>>
Some(v) == <<v>>
Val(o) == o[1]
\* 0/0, the IEEE not-a-number
NaN == [n |-> 0, d |-> 0]
IsNaN(a) == a.d = 0

Abs(x) == IF x < 0 THEN -x ELSE x

RECURSIVE GCD(_, _)
GCD(a, b) == IF b = 0 THEN a ELSE GCD(b, a % b)

\* n/d in lowest terms with a positive denominator (d # 0)
Rat(n, d) ==
    LET g == GCD(Abs(n), Abs(d))
        s == IF d < 0 THEN -1 ELSE 1
    IN [n |-> s * (n \div g), d |-> s * (d \div g)]

FromInt(k) == [n |-> k, d |-> 1]
RAdd(a, b) == Rat(a.n * b.d + b.n * a.d, a.d * b.d)
RSub(a, b) == Rat(a.n * b.d - b.n * a.d, a.d * b.d)
RMul(a, b) == Rat(a.n * b.n, a.d * b.d)
RDivInt(a, k) == Rat(a.n, a.d * k)
RLess(a, b) == a.n * b.d < b.n * a.d
RLeq(a, b) == a.n * b.d <= b.n * a.d
RSign(a) == IF a.n > 0 THEN 1 ELSE IF a.n < 0 THEN -1 ELSE 0
Half == [n |-> 1, d |-> 2]
Zero == [n |-> 0, d |-> 1]
One == [n |-> 1, d |-> 1]

RECURSIVE Pow2(_)
Pow2(k) == IF k = 0 THEN 1 ELSE 2 * Pow2(k - 1)

RECURSIVE SeqMin(_)
SeqMin(s) ==
    IF Len(s) = 1 THEN Head(s)
    ELSE LET m == SeqMin(Tail(s)) IN IF RLess(Head(s), m) THEN Head(s) ELSE m

RECURSIVE SeqMax(_)
SeqMax(s) ==
    IF Len(s) = 1 THEN Head(s)
    ELSE LET m == SeqMax(Tail(s)) IN IF RLess(m, Head(s)) THEN Head(s) ELSE m

\* ------------------------------------------------------------- call inputs
Values == {FromInt(k) : k \in 0..MaxVal}
SampleSets == UNION {[1..m -> Values] : m \in 0..MaxSamples}
GridArgs == {None} \cup {Some(k) : k \in -1..MaxGrid}
BoundArgs == {None} \cup {Some(v) : v \in Values}

VARIABLES
    args,       \* the arguments of the call: [data, N, MIN, MAX]
    pc,         \* position in kde
    err,        \* the exception that ended the call, or None
    N, MIN, MAX, R, M,
    DataHist, bins,
    DCTData, I, SqDCTData,
    fp,         \* the frame of the running fixed_point call: [t, s, f, time, steps]
    ga, gb,     \* brentq's two evaluations of fixed_point at the bracket ends
    t_star,
    result      \* what kde returned: [bandwidth, mesh, density], or None

kdevars == <<args, pc, err, N, MIN, MAX, R, M, DataHist, bins, DCTData, I,
             SqDCTData, fp, ga, gb, t_star, result>>

\* ------------------------------------------------------- kde, lines 19-22
\* ceil(log2(n)) for n >= 1
RECURSIVE CeilLog2(_)
CeilLog2(n) == IF n <= 1 THEN 0 ELSE 1 + CeilLog2((n + 1) \div 2)

\* N = 2**np.ceil(np.log2(N)): log2(0) = -inf gives 2**-inf = 0, and the
\* log2 of a negative number is nan
\* a faulty grid: the logarithm rounded down instead of up
GridN_Floor(n) ==
    IF n >= 1 THEN FromInt(Pow2(IF Pow2(CeilLog2(n)) = n THEN CeilLog2(n)
                                ELSE CeilLog2(n) - 1))
    ELSE IF n = 0 THEN Zero
    ELSE NaN

GridN(n) ==
    IF n >= 1 THEN FromInt(Pow2(CeilLog2(n)))
    ELSE IF n = 0 THEN Zero
    ELSE NaN

Raise(e) ==
    /\ pc' = "raised"
    /\ err' = Some(e)

\* line 22.  np.log2(None) raises.
GridStep ==
    /\ pc = "grid"
    /\ IF args.N = None
       THEN /\ Raise("TypeError")
            /\ UNCHANGED N
       ELSE /\ N' = GridN(Val(args.N))
            /\ pc' = "bounds"
            /\ UNCHANGED err
    /\ UNCHANGED <<args, MIN, MAX, R, M, DataHist, bins, DCTData, I, SqDCTData,
                   fp, ga, gb, t_star, result>>

\* ------------------------------------------------------- kde, lines 23-31
DefaultMIN(d) == RSub(SeqMin(d), RDivInt(RSub(SeqMax(d), SeqMin(d)), 10))
DefaultMAX(d) == RAdd(SeqMax(d), RDivInt(RSub(SeqMax(d), SeqMin(d)), 10))

\* a faulty lower bound: recomputed from the data whenever there is data,
\* overriding a bound the caller supplied
LowerBound_Override(d, lo) == IF Len(d) = 0 THEN Val(lo) ELSE DefaultMIN(d)

LowerBound(d, lo) == IF lo = None THEN DefaultMIN(d) ELSE Val(lo)
UpperBound(d, hi) == IF hi = None THEN DefaultMAX(d) ELSE Val(hi)

\* np.min of an empty sequence raises ValueError; with both bounds supplied
\* the data is not looked at here.
BoundsStep ==
    /\ pc = "bounds"
    /\ IF (MIN = None \/ MAX = None) /\ Len(args.data) = 0
       THEN /\ Raise("ValueError")
            /\ UNCHANGED <<MIN, MAX, R>>
       ELSE /\ MIN' = LowerBound(args.data, MIN)
            /\ MAX' = UpperBound(args.data, MAX)
            /\ R' = RSub(MAX', MIN')
            /\ pc' = "hist"
            /\ UNCHANGED err
    /\ UNCHANGED <<args, N, M, DataHist, bins, DCTData, I, SqDCTData,
                   fp, ga, gb, t_star, result>>

\* ------------------------------------------------------- kde, lines 33-36
\* numpy.histogram(a, bins=n, range=(mn, mx)): the range must not be
\* reversed and the bin count must be a number >= 1; an empty range is
\* widened by 0.5 on both sides.
HistogramRaises(n, mn, mx) == IsNaN(n) \/ n.n < 1 \/ RLess(mx, mn)
OuterLo(mn, mx) == IF mn = mx THEN RSub(mn, Half) ELSE mn
OuterHi(mn, mx) == IF mn = mx THEN RAdd(mx, Half) ELSE mx

\* linspace(lo, hi, n + 1)
Edges(n, lo, hi) ==
    [i \in 0..n |-> RAdd(lo, RDivInt(RMul(FromInt(i), RSub(hi, lo)), n))]

\* bin i is [edge i, edge i+1), the last one [edge n-1, edge n]
InBin(x, i, n, e) ==
    /\ RLeq(e[i], x)
    /\ IF i = n - 1 THEN RLeq(x, e[i + 1]) ELSE RLess(x, e[i + 1])

Counts(d, n, e) ==
    [i \in 0..(n - 1) |-> Cardinality({j \in 1..Len(d) : InBin(d[j], i, n, e)})]

\* DataHist/M, true division: 0/0 is nan
Fraction(c, m) == IF m = 0 THEN NaN ELSE Rat(c, m)

HistStep ==
    /\ pc = "hist"
    /\ M' = Len(args.data)
    /\ IF HistogramRaises(N, MIN, MAX)
       THEN /\ Raise("ValueError")
            /\ UNCHANGED <<DataHist, bins>>
       ELSE /\ bins' = Edges(N.n, OuterLo(MIN, MAX), OuterHi(MIN, MAX))
            /\ DataHist' = [i \in 0..(N.n - 1) |->
                             Fraction(Counts(args.data, N.n, bins')[i], M')]
            /\ pc' = "dct"
            /\ UNCHANGED err
    /\ UNCHANGED <<args, N, MIN, MAX, R, DCTData, I, SqDCTData,
                   fp, ga, gb, t_star, result>>

\* ------------------------------------------------------- kde, lines 37-40
\* The cosine-transform coefficients are irrational in general; coefficient
\* k of the transform of DataHist is held as the term [dct |-> k].
Dct(n) == [k \in 0..(n - 1) |-> [dct |-> k]]

\* I = (np.arange(N-1)+1)**2
IndexSquares(n) == [k \in 0..(n - 2) |-> (k + 1) * (k + 1)]

\* a faulty slice: DCTData[:-1], which keeps coefficient 0
SqHalf_FromZero(c) == [k \in 0..(Cardinality(DOMAIN c) - 2) |-> [sq_half |-> c[k]]]

\* SqDCTData = (DCTData[1:]/2)**2
SqHalf(c) == [k \in 0..(Cardinality(DOMAIN c) - 2) |-> [sq_half |-> c[k + 1]]]

DctStep ==
    /\ pc = "dct"
    /\ DCTData' = Dct(N.n)
    /\ I' = IndexSquares(N.n)
    /\ SqDCTData' = SqHalf(DCTData')
    /\ pc' = "brentq"
    /\ UNCHANGED <<args, err, N, MIN, MAX, R, M, DataHist, bins,
                   fp, ga, gb, t_star, result>>

\* ----------------------------------------------- fixed_point, lines 54-65
\* 2*np.pi**(pipow)*np.sum(I**ipow*a2*np.exp(-I*np.pi**2*at)), as a term
Phi(pipow, ipow, at) == [pipow |-> pipow, ipow |-> ipow, at |-> at]

\* The operands of np.sum in lines 59 and 64: the arrays I and a2 are
\* multiplied element by element, so entry j of the sum is built from
\* I[j] and a2[j].
SumTerms(idx, a2) == [j \in DOMAIN a2 |-> [idx |-> idx[j], a2 |-> a2[j]]]

\* np.prod(xrange(1, 2*s, 2)): 1*3*...*(2s-1)
RECURSIVE OddProd(_)
OddProd(s) == IF s = 0 THEN 1 ELSE (2 * s - 1) * OddProd(s - 1)

\* time = (2*const*K0/M/f)**(2/(3+2*s)), as a term
Time(s, m, f) == [s |-> s, K0 |-> OddProd(s), M |-> m, f |-> f]

\* the order the descent starts from (l = 7, line 55) and the bracket of
\* the root search (line 43)
l == 7
BracketLo == Zero
BracketHi == Rat(1, 10)

\* brentq evaluates f at the lower end of the bracket first, then the upper
NextEval == IF ga = None THEN BracketLo ELSE BracketHi

\* lines 55-59
FpEnter ==
    /\ pc = "brentq"
    /\ fp' = [t |-> NextEval, s |-> l, f |-> Phi(2 * l, 7, [t |-> NextEval]),
              steps |-> <<>>, terms |-> SumTerms(I, SqDCTData)]
    /\ pc' = "fp_loop"
    /\ UNCHANGED <<args, err, N, MIN, MAX, R, M, DataHist, bins, DCTData, I,
                   SqDCTData, ga, gb, t_star, result>>

\* a faulty update: the moment sum of the next lower order
NextF_Lower(s, time) == Phi(2 * (s - 1), s - 1, time)

\* the moment sum that replaces f in the iteration for s, line 64
NextF(s, time) == Phi(2 * s, s, time)

\* one iteration of "for s in range(l, 1, -1)", lines 60-64
FpIter ==
    /\ pc = "fp_loop"
    /\ fp.s > 1
    /\ LET time == Time(fp.s, M, fp.f)
           f == NextF(fp.s, time)
       IN fp' = [fp EXCEPT !.f = f, !.s = fp.s - 1,
                           !.steps = Append(fp.steps,
                                            [s |-> fp.s, from |-> fp.f,
                                             time |-> time, f |-> f])]
    /\ UNCHANGED <<args, pc, err, N, MIN, MAX, R, M, DataHist, bins, DCTData, I,
                   SqDCTData, ga, gb, t_star, result>>

\* The sign of t - (2*M*sqrt(pi)*f)**(-2/5).  With no index terms (N = 1)
\* every sum is 0 and the value is -inf; with M = 0 the histogram is nan
\* and so is the value; otherwise f is finite and nonnegative, the
\* subtracted power is positive, and the value is negative at t = 0 and of
\* either sign at t > 0.  Which sign it has at t > 0 depends on the
\* floating-point values of the sums, which this model does not compute.
\* An exact floating-point zero at t > 0 is not drawn.
GSigns(t, n, m) ==
    IF n = 1 THEN {"neg"}
    ELSE IF m = 0 THEN {"nan"}
    ELSE IF RSign(t) <= 0 THEN {"neg"}
    ELSE {"neg", "pos"}

\* line 65, the loop being exhausted
FpReturn ==
    /\ pc = "fp_loop"
    /\ fp.s <= 1
    /\ \E sg \in GSigns(fp.t, N.n, M) :
         LET g == [t |-> fp.t, f |-> fp.f, steps |-> fp.steps,
                   terms |-> fp.terms, sign |-> sg]
         IN IF ga = None
            THEN /\ ga' = Some(g)
                 /\ pc' = "brentq"
                 /\ UNCHANGED gb
            ELSE /\ gb' = Some(g)
                 /\ pc' = "brentq_check"
                 /\ UNCHANGED ga
    /\ UNCHANGED <<args, err, N, MIN, MAX, R, M, DataHist, bins, DCTData, I,
                   SqDCTData, fp, t_star, result>>

\* ------------------------------------------------------------ kde, line 43
\* scipy.optimize.brentq(f, a, b): ValueError when f(a)*f(b) > 0; an end of
\* the bracket where f is exactly 0 is returned as it is; with a sign change
\* the iteration converges strictly inside the bracket.
InteriorRoots == {Rat(1, 100), Rat(1, 20)}

SameSign(sa, sb) == sa \in {"neg", "pos"} /\ sa = sb

BrentqRaises(sa, sb) ==
    IF SameSign(sa, sb) THEN {"ValueError"}
    ELSE IF "nan" \in {sa, sb} THEN {"RuntimeError"}
    ELSE {}

\* With a nan value no test of the iteration succeeds: depending on the
\* build it stops at a point inside the bracket or gives up.
BrentqRoots(sa, sb, a, b) ==
    IF SameSign(sa, sb) THEN {}
    ELSE IF sa = "zero" THEN {a}
    ELSE IF sb = "zero" THEN {b}
    ELSE InteriorRoots

BrentqStep ==
    /\ pc = "brentq_check"
    /\ LET sa == Val(ga).sign
           sb == Val(gb).sign
       IN \/ /\ \E e \in BrentqRaises(sa, sb) : Raise(e)
             /\ UNCHANGED t_star
          \/ /\ \E r \in BrentqRoots(sa, sb, BracketLo, BracketHi) : t_star' = r
             /\ pc' = "smooth"
             /\ UNCHANGED err
    /\ UNCHANGED <<args, N, MIN, MAX, R, M, DataHist, bins, DCTData, I,
                   SqDCTData, fp, ga, gb, result>>

\* ------------------------------------------------------- kde, lines 45-52
\* SmDCTData = DCTData*np.exp(-np.arange(N)**2*np.pi**2*t_star/2)
Smooth(c, t) ==
    [k \in DOMAIN c |-> [coef |-> c[k], atten |-> RDivInt(RMul(FromInt(k * k), t), 2)]]

\* density = idct(SmDCTData)*N/R: entry i is the value for bin i
Density(sm, n, r) ==
    [i \in DOMAIN sm |-> [idct |-> i, of |-> sm, times |-> n, over |-> r]]

\* mesh = [(bins[i]+bins[i+1])/2 for i in xrange(N)]
Mesh(b, n) == [i \in 0..(n - 1) |-> RDivInt(RAdd(b[i], b[i + 1]), 2)]

\* bandwidth = np.sqrt(t_star)*R
Bandwidth(t, r) == [sqrt |-> t, times |-> r]
BandwidthSign(bw) == RSign(bw.sqrt) * RSign(bw.times)

SmoothStep ==
    /\ pc = "smooth"
    /\ result' = Some([bandwidth |-> Bandwidth(t_star, R),
                       mesh |-> Mesh(bins, N.n),
                       density |-> Density(Smooth(DCTData, t_star), N.n, R)])
    /\ pc' = "returned"
    /\ UNCHANGED <<args, err, N, MIN, MAX, R, M, DataHist, bins, DCTData, I,
                   SqDCTData, fp, ga, gb, t_star>>

\* ---------------------------------------------- dgp_class, lines 68-310
\* inputs and rates hold the _inputs and _rates lists of the classes that
\* assign them in their class body; objects is the classes of the objects
\* constructed so far, in order; call is how the last pdf or sample ended.
VARIABLES inputs, rates, objects, call

dgpvars == <<inputs, rates, objects, call>>

\* the length of the _inputs list each class body builds; StronglySkewed
\* and LogNormal assign no _inputs in their body
OwnInputs ==
    [dgp |-> 0, Claw |-> 6, KurtoticUnimodal |-> 2, DoubleClaw |-> 9,
     DiscreteComb |-> 6, AsymDoubleClaw |-> 8, Outlier |-> 2,
     SeparatedBimodal |-> 2, SkewBimodal |-> 2, Bimodal |-> 2, AsymClaw |-> 6,
     Trimodal |-> 3, FiveModes |-> 5, TenModes |-> 10, SmoothComb |-> 6]

\* the length of the _rates list each class body builds; LogNormal assigns
\* no _rates in its body
OwnRates ==
    [dgp |-> 0, Claw |-> 6, StronglySkewed |-> 8, KurtoticUnimodal |-> 2,
     DoubleClaw |-> 9, DiscreteComb |-> 6, AsymDoubleClaw |-> 8, Outlier |-> 2,
     SeparatedBimodal |-> 2, SkewBimodal |-> 2, Bimodal |-> 2, AsymClaw |-> 6,
     Trimodal |-> 3, FiveModes |-> 5, TenModes |-> 10, SmoothComb |-> 6]

\* entry k of a list written in the body or __init__ of cls, as a term
Entries(cls, n) == [k \in 1..n |-> [cls |-> cls, k |-> k - 1]]

\* the lists once the module is imported
ClassInputs == [c \in DOMAIN OwnInputs |-> Entries(c, OwnInputs[c])]
ClassRates == [c \in DOMAIN OwnRates |-> Entries(c, OwnRates[c])]

\* self._inputs and self._rates on an object of class cls: no object has
\* the attribute itself, so the lookup finds the list of cls if cls assigns
\* one and the list of the base class dgp otherwise
Holder(cls, lists) == IF cls \in DOMAIN lists THEN cls ELSE "dgp"
InputsOf(cls) == inputs[Holder(cls, inputs)]
RatesOf(cls) == rates[Holder(cls, rates)]

\* "for k in xrange(8)", line 120
SkewedTerms == 8

\* The lists after cls.__init__: every __init__ calls dgp.__init__ and sets
\* docstrings; StronglySkewed.__init__ also appends to self._inputs
\* (lines 120-121), which is the list the lookup finds.
InitInputs(cls, lists) ==
    IF cls = "StronglySkewed"
    THEN [lists EXCEPT ![Holder(cls, lists)] = @ \o Entries(cls, SkewedTerms)]
    ELSE lists

ClassNames == {"dgp", "LogNormal"} \cup DOMAIN OwnRates

\* obj = cls()
Construct ==
    /\ Len(objects) < MaxObjects
    /\ \E cls \in ClassNames :
         /\ objects' = Append(objects, cls)
         /\ inputs' = InitInputs(cls, inputs)
    /\ UNCHANGED <<rates, call>>

\* dgp._pdf, lines 79-81: self._rates[k] for every k, input_ of
\* enumerate(self._inputs).  LogNormal._pdf, lines 234-238, uses neither
\* list and raises on a mesh with a point <= 0.
PdfOutcomes(cls, positive) ==
    IF cls = "LogNormal" THEN (IF positive THEN {"returned"} ELSE {"ValueError"})
    ELSE IF Len(InputsOf(cls)) > Len(RatesOf(cls)) THEN {"IndexError"}
    ELSE {"returned"}

\* dgp._sample and _generate, lines 82-84 and 62-66: one count per rate,
\* inputs[iC] for every iC, count of enumerate(counts).  With no rates at
\* all, multinomial reads the first entry of an empty array and raises or
\* not.  LogNormal.sample is rand.lognormal.
SampleOutcomes(cls) ==
    IF cls = "LogNormal" THEN {"returned"}
    ELSE IF Len(RatesOf(cls)) = 0 THEN {"returned", "ValueError"}
    ELSE IF Len(InputsOf(cls)) < Len(RatesOf(cls)) THEN {"IndexError"}
    ELSE {"returned"}

\* objects[i].pdf(mesh)
Pdf ==
    /\ \E i \in 1..Len(objects), positive \in BOOLEAN :
         \E out \in PdfOutcomes(objects[i], positive) :
           call' = [obj |-> i, method |-> "pdf", outcome |-> out]
    /\ UNCHANGED <<inputs, rates, objects>>

\* objects[i].sample(size)
Sample ==
    /\ \E i \in 1..Len(objects) :
         \E out \in SampleOutcomes(objects[i]) :
           call' = [obj |-> i, method |-> "sample", outcome |-> out]
    /\ UNCHANGED <<inputs, rates, objects>>

\* ------------------------------------------- test_plots.main, lines 12-50
VARIABLES
    margs,      \* the arguments of the call of main: [Nsamp, Nmesh]
    mainpc,     \* position in main
    mainerr,    \* the exception that ended main, or None
    Nsamp,
    classes,    \* the (class, name) pairs main iterates over
    pos,          \* index of the running iteration in classes
    model,      \* the name of the class of the object built by cls()
    saved       \* the files written by fig.savefig, in order

mainvars == <<margs, mainpc, mainerr, Nsamp, classes, pos, model, saved>>

\* inspect.getmembers(dgp): the classes of dgp_class.py, sorted by name
Members ==
    <<"AsymClaw", "AsymDoubleClaw", "Bimodal", "Claw", "DiscreteComb",
      "DoubleClaw", "FiveModes", "KurtoticUnimodal", "LogNormal", "Outlier",
      "SeparatedBimodal", "SkewBimodal", "SmoothComb", "StronglySkewed",
      "TenModes", "Trimodal", "dgp">>

\* lines 26-27: "not cls in (dgp.dgp, dgp.LogNormal)"
IsPlotted(name) == name \notin {"dgp", "LogNormal"}
Classes == SelectSeq(Members, IsPlotted)

\* lines 24-27
MainStart ==
    /\ mainpc = "start"
    /\ Nsamp' = IF margs.Nsamp = None THEN 10000 ELSE Val(margs.Nsamp)
    /\ classes' = Classes
    /\ pos' = 1
    /\ mainpc' = "loop"
    /\ UNCHANGED <<margs, mainerr, model, saved>>

\* How kde.kde(x, N=n) ends for a sample x of a benchmark distribution and
\* default bounds: line 22 raises when n is None, the histogram raises when
\* the grid is not a number >= 1, and the root search raises or not.
KdeOutcomes(n) ==
    IF n = None THEN {"TypeError"}
    ELSE IF HistogramRaises(GridN(Val(n)), Zero, One) THEN {"ValueError"}
    ELSE {"returned", "ValueError"}

\* lines 28-32: model = cls(); x = model.sample(size=Nsamp);
\* t, mesh, kdense = kde.kde(x, N=Nmesh)
MainEstimate ==
    /\ mainpc = "loop"
    /\ pos <= Len(classes)
    /\ model' = classes[pos]
    /\ objects' = Append(objects, classes[pos])
    /\ inputs' = InitInputs(classes[pos], inputs)
    /\ \E out \in KdeOutcomes(margs.Nmesh) :
         IF out = "returned"
         THEN /\ mainpc' = "plot"
              /\ UNCHANGED mainerr
         ELSE /\ mainpc' = "raised"
              /\ mainerr' = Some(out)
    /\ UNCHANGED <<margs, Nsamp, classes, pos, saved, rates, call>>

\* lines 33-47: f = model.pdf(mesh); ...; fig.savefig(name+'.pdf')
MainPlot ==
    /\ mainpc = "plot"
    /\ saved' = Append(saved, model)
    /\ pos' = pos + 1
    /\ mainpc' = "loop"
    /\ UNCHANGED <<margs, mainerr, Nsamp, classes, model>>

\* line 50, the loop being exhausted
MainReturn ==
    /\ mainpc = "loop"
    /\ pos > Len(classes)
    /\ mainpc' = "returned"
    /\ UNCHANGED <<margs, mainerr, Nsamp, classes, pos, model, saved>>

\* ----------------------------------------------------- the specifications
vars == <<kdevars, mainvars, dgpvars>>

KdeIdle ==
    /\ args = None /\ pc = "idle" /\ err = None
    /\ N = None /\ MIN = None /\ MAX = None /\ R = None /\ M = None
    /\ DataHist = None /\ bins = None
    /\ DCTData = None /\ I = None /\ SqDCTData = None
    /\ fp = None /\ ga = None /\ gb = None /\ t_star = None /\ result = None

MainIdle ==
    /\ margs = None /\ mainpc = "idle" /\ mainerr = None
    /\ Nsamp = None /\ classes = None /\ pos = None /\ model = None
    /\ saved = None

\* dgp_class imported, no object constructed
DgpIdle ==
    /\ inputs = ClassInputs /\ rates = ClassRates
    /\ objects = <<>> /\ call = None

\* one call of kde.kde
Init ==
    /\ args \in [data : SampleSets, N : GridArgs, MIN : BoundArgs, MAX : BoundArgs]
    /\ pc = "grid"
    /\ err = None
    /\ N = args.N
    /\ MIN = args.MIN
    /\ MAX = args.MAX
    /\ R = None
    /\ M = None
    /\ DataHist = None
    /\ bins = None
    /\ DCTData = None
    /\ I = None
    /\ SqDCTData = None
    /\ fp = None
    /\ ga = None
    /\ gb = None
    /\ t_star = None
    /\ result = None
    /\ MainIdle
    /\ DgpIdle

Next ==
    \/ GridStep /\ UNCHANGED <<mainvars, dgpvars>>
    \/ BoundsStep /\ UNCHANGED <<mainvars, dgpvars>>
    \/ HistStep /\ UNCHANGED <<mainvars, dgpvars>>
    \/ DctStep /\ UNCHANGED <<mainvars, dgpvars>>
    \/ FpEnter /\ UNCHANGED <<mainvars, dgpvars>>
    \/ FpIter /\ UNCHANGED <<mainvars, dgpvars>>
    \/ FpReturn /\ UNCHANGED <<mainvars, dgpvars>>
    \/ BrentqStep /\ UNCHANGED <<mainvars, dgpvars>>
    \/ SmoothStep /\ UNCHANGED <<mainvars, dgpvars>>

Spec == Init /\ [][Next]_vars

\* one call of test_plots.main
SampleCounts == {None} \cup {Some(n) : n \in 1..MaxSamples}

InitMain ==
    /\ margs \in [Nsamp : SampleCounts, Nmesh : GridArgs]
    /\ mainpc = "start"
    /\ mainerr = None
    /\ Nsamp = margs.Nsamp
    /\ classes = None
    /\ pos = None
    /\ model = None
    /\ saved = <<>>
    /\ KdeIdle
    /\ DgpIdle

NextMain ==
    \/ MainStart /\ UNCHANGED <<kdevars, dgpvars>>
    \/ MainEstimate /\ UNCHANGED kdevars
    \/ MainPlot /\ UNCHANGED <<kdevars, dgpvars>>
    \/ MainReturn /\ UNCHANGED <<kdevars, dgpvars>>

SpecMain == InitMain /\ [][NextMain]_vars

\* any sequence of constructions and method calls after the import
InitDgp == DgpIdle /\ KdeIdle /\ MainIdle

NextDgp ==
    \/ Construct /\ UNCHANGED <<kdevars, mainvars>>
    \/ Pdf /\ UNCHANGED <<kdevars, mainvars>>
    \/ Sample /\ UNCHANGED <<kdevars, mainvars>>

SpecDgp == InitDgp /\ [][NextDgp]_vars

\* ================================================================ claims
GridDone == pc # "grid" /\ args.N # None
BoundsDone == R # None
\* line 35 has run (and raised or not)
HistReached == BoundsDone /\ pc # "hist"
\* ... and did not raise
HistDone == DataHist # None
Returned == pc = "returned"

IsPow2(x) == \E k \in 0..MaxGrid : x = Pow2(k)
Size(f) == Cardinality(DOMAIN f)
Elems(d) == {d[j] : j \in 1..Len(d)}
Smallest(d) == CHOOSE v \in Elems(d) : \A w \in Elems(d) : RLeq(v, w)
Largest(d) == CHOOSE v \in Elems(d) : \A w \in Elems(d) : RLeq(w, v)

\* C1: for every requested grid size n >= 1 the grid resolution N is the
\* smallest power of two >= n, and the histogram, the transform and the
\* mesh all have N entries.
C1_GridIsNextPowerOfTwo ==
    (GridDone /\ Val(args.N) >= 1) =>
        /\ N.d = 1
        /\ IsPow2(N.n)
        /\ N.n >= Val(args.N)
        /\ \A k \in 0..MaxGrid : Pow2(k) >= Val(args.N) => N.n <= Pow2(k)
        /\ HistDone => Size(DataHist) = N.n /\ Size(bins) = N.n + 1
        /\ DCTData # None => Size(DCTData) = N.n
        /\ Returned => Size(Val(result).mesh) = N.n

\* a request that is not a power of two was rounded up and the call returned
C1_Witness == Returned /\ Val(args.N) = 3 /\ N = FromInt(4)

\* C2: an omitted bound is min - range/10 (lower) or max + range/10 (upper);
\* a supplied bound is used unchanged, also when only one is supplied.
C2_DefaultBounds ==
    BoundsDone =>
        LET lo == Smallest(args.data)
            hi == Largest(args.data)
        IN /\ args.MIN # None => MIN = Val(args.MIN)
           /\ args.MAX # None => MAX = Val(args.MAX)
           /\ args.MIN = None => RMul(FromInt(10), RSub(lo, MIN)) = RSub(hi, lo)
           /\ args.MAX = None => RMul(FromInt(10), RSub(MAX, hi)) = RSub(hi, lo)

\* only the upper bound was supplied, the data has a nonzero range, and the
\* bounds were computed
C2_Witness ==
    /\ BoundsDone
    /\ args.MIN = None /\ args.MAX # None
    /\ Smallest(args.data) # Largest(args.data)
    /\ MAX = Val(args.MAX)
    /\ RLess(MIN, Smallest(args.data))

\* the mass vector as a sequence, for summing
RECURSIVE MassUpTo(_, _)
MassUpTo(h, i) == IF i < 0 THEN Zero ELSE RAdd(h[i], MassUpTo(h, i - 1))
MassSum(h) == MassUpTo(h, Size(h) - 1)
HasNaN(h) == \E i \in DOMAIN h : IsNaN(h[i])
Within(x, lo, hi) == RLeq(lo, x) /\ RLeq(x, hi)
AllWithin == \A x \in Elems(args.data) : Within(x, MIN, MAX)

\* C3: for every sample set whose values all lie within [MIN, MAX] the
\* empirical mass vector has length N, only nonnegative entries and sums
\* to exactly 1.
C3_MassSumsToOne ==
    (HistDone /\ AllWithin) =>
        /\ Size(DataHist) = N.n
        /\ ~HasNaN(DataHist)
        /\ \A i \in DOMAIN DataHist : DataHist[i].n >= 0
        /\ MassSum(DataHist) = One

\* C4: with caller bounds that leave some samples outside [MIN, MAX] the
\* histogram step raises no error, the outside samples are not counted, and
\* the mass vector still sums to 1.
C4_OutsideSamplesMassOne ==
    (/\ HistReached
     /\ args.MIN # None /\ args.MAX # None /\ RLess(MIN, MAX)
     /\ ~IsNaN(N) /\ N.n >= 1
     /\ ~AllWithin) =>
        /\ HistDone
        /\ \A i \in DOMAIN DataHist :
             DataHist[i] = Fraction(Cardinality({j \in 1..Len(args.data) :
                                       /\ Within(args.data[j], MIN, MAX)
                                       /\ InBin(args.data[j], i, N.n, bins)}), M)
        /\ MassSum(DataHist) = One

InvalidInput ==
    \/ Len(args.data) = 0
    \/ args.MIN # None /\ args.MAX # None /\ RLeq(Val(args.MAX), Val(args.MIN))
    \/ args.N # None /\ Val(args.N) <= 0

\* C5: an empty sample set, a lower bound >= the upper bound, or a grid
\* size <= 0 makes the call fail before any estimation step, and no result
\* is returned.
C5_InvalidInputFails ==
    InvalidInput =>
        /\ pc \in {"grid", "bounds", "hist", "raised"}
        /\ DataHist = None
        /\ result = None

Degenerate ==
    /\ Len(args.data) >= 1
    /\ Cardinality(Elems(args.data)) = 1
    /\ args.MIN = None /\ args.MAX = None

\* C6: a non-empty sample set whose samples are all equal, with both bounds
\* left to their defaults, never yields a result (the call raises), and in
\* particular never a result whose bandwidth is 0.
C6_DegenerateRaises ==
    Degenerate =>
        /\ ~Returned
        /\ result # None => BandwidthSign(Val(result).bandwidth) # 0

\* C7: for a sample set with at least two distinct values, a returned
\* result has t* strictly inside (0, 0.1) and a strictly positive bandwidth.
C7_BandwidthPositive ==
    (Returned /\ Cardinality(Elems(args.data)) >= 2) =>
        /\ RLess(BracketLo, t_star) /\ RLess(t_star, BracketHi)
        /\ BandwidthSign(Val(result).bandwidth) = 1

\* C8: in every returned result mesh and density have N entries, mesh[i] is
\* the midpoint of [MIN + i*(MAX-MIN)/N, MIN + (i+1)*(MAX-MIN)/N], the mesh
\* is strictly increasing and strictly inside (MIN, MAX), and density[i] is
\* the value for bin i.
C8_MeshIsBinCentres ==
    Returned =>
        LET mesh == Val(result).mesh
            density == Val(result).density
        IN /\ Size(mesh) = N.n /\ Size(density) = N.n
           /\ \A i \in 0..(N.n - 1) :
                /\ RMul(FromInt(2 * N.n), RSub(mesh[i], MIN))
                     = RMul(FromInt(2 * i + 1), RSub(MAX, MIN))
                /\ RLess(MIN, mesh[i]) /\ RLess(mesh[i], MAX)
                /\ i > 0 => RLess(mesh[i - 1], mesh[i])
                /\ density[i].idct = i

\* the iterations of one evaluation g of fixed_point: six, with s = 7, ..., 2
\* in that order, each computing time(s) from the f it found and leaving a
\* moment sum taken at time(s); g uses the f the last one left
StepsDescend(g) ==
    /\ Len(g.steps) = 6
    /\ \A i \in 1..Len(g.steps) :
         /\ g.steps[i].s = 8 - i
         /\ g.steps[i].time.s = g.steps[i].s
         /\ g.steps[i].time.M = M
         /\ g.steps[i].time.f = IF i = 1 THEN [pipow |-> 14, ipow |-> 7,
                                                at |-> [t |-> g.t]]
                                ELSE g.steps[i - 1].f
         /\ g.steps[i].f.at = g.steps[i].time
    /\ g.f = g.steps[Len(g.steps)].f

OrderAfter(g, delta) ==
    \A i \in 1..Len(g.steps) :
        /\ g.steps[i].f.ipow = g.steps[i].s - delta
        /\ g.steps[i].f.pipow = 2 * (g.steps[i].s - delta)

\* C10 as stated: fixed_point starts from phi(7, t) and runs six iterations
\* with s = 7, ..., 2, each computing time(s) from the current f and
\* replacing f by phi(s - 1, time(s)); the f left by the s = 2 iteration is
\* the one g uses.
C10_NextLowerOrder ==
    \A o \in {ga, gb} : o # None => StepsDescend(Val(o)) /\ OrderAfter(Val(o), 1)

\* C10 as amended: the same, with f replaced by the moment sum of the same
\* order, phi(s, time(s)), so that g uses phi(2, time(2)).
C10_SameOrder ==
    \A o \in {ga, gb} : o # None => StepsDescend(Val(o)) /\ OrderAfter(Val(o), 0)

\* fixed_point has returned at both ends of the bracket
C10_Witness ==
    /\ ga # None /\ gb # None
    /\ Val(gb).t = BracketHi
    /\ Val(gb).f.ipow = 2

\* the values of g computed so far by the root search
Evaluated == {o \in {ga, gb} : o # None}

\* a coefficient vector that differs from c in coefficient 0 only
OtherDC(c) == [c EXCEPT ![0] = [dct |-> 0, plus |-> 1]]

\* C11: every evaluation of g sums exactly N-1 terms; term k (k = 1..N-1)
\* is built from (DCTData[k]/2)^2 and the index value k^2; coefficient 0 is
\* in none of them, so a coefficient vector that differs in coefficient 0
\* only gives the same terms; the reconstruction attenuates all N
\* coefficients, entry k by k^2*t_star/2, entry 0 included, and so does
\* depend on coefficient 0.
C11_BandwidthSkipsDC ==
    /\ \A o \in Evaluated :
         LET terms == Val(o).terms
         IN /\ DOMAIN terms = 0..(N.n - 2)
            /\ \A k \in 1..(N.n - 1) :
                 terms[k - 1] = [idx |-> k * k, a2 |-> [sq_half |-> DCTData[k]]]
            /\ \A j \in DOMAIN terms : terms[j].a2.sq_half # DCTData[0]
            /\ SumTerms(IndexSquares(N.n), SqHalf(OtherDC(DCTData))) = terms
    /\ Returned =>
         LET sm == Val(result).density[0].of
         IN /\ DOMAIN sm = 0..(N.n - 1)
            /\ \A k \in 0..(N.n - 1) :
                 /\ sm[k].coef = DCTData[k]
                 /\ sm[k].atten = RDivInt(RMul(FromInt(k * k), t_star), 2)
            /\ Smooth(OtherDC(DCTData), t_star) # sm

C11_Witness ==
    /\ Returned
    /\ N.n = 4
    /\ \A o \in {ga, gb} : o # None /\ Size(Val(o).terms) = 3

\* an object of class cls sees as many components as weights
Matched(cls) == Len(InputsOf(cls)) = Len(RatesOf(cls))

\* C12: after any sequence of constructions every constructed object has as
\* many components (_inputs) as weights (_rates), and no step changes the
\* component list seen by an object that already exists.
C12_ComponentsMatchWeights ==
    /\ [](\A i \in 1..Len(objects) : Matched(objects[i]))
    /\ [][\A i \in 1..Len(objects) :
             InputsOf(objects[i])' = InputsOf(objects[i])]_vars

\* C9: main() called with its arguments left at their defaults completes
\* and saves one PDF plot for each of the 16 test-case distributions.
C9_MainPlotsSixteen ==
    (mainpc # "idle" /\ margs.Nsamp = None /\ margs.Nmesh = None) =>
        /\ mainpc # "raised"
        /\ mainpc = "returned" => Len(saved) = 16

====
